---- MODULE Spec2Model ----
(***************************************************************************)
(* Model of two commands of azure-extensions-cli: unpublish-version        *)
(* (unpublish.go) and replication-status (replicationstatus.go), together  *)
(* with the helpers of main.go they use (checkFlag, mkClient).             *)
(*                                                                         *)
(* One behaviour is one run of the process.  The input of a run (the       *)
(* command and the values its flags resolve to) is fixed by Init.  The     *)
(* remote service and the file system are the environment: every call to   *)
(* them returns either a value or an error, chosen nondeterministically.   *)
(* The variable events is the observable history of the run: remote        *)
(* requests and their returns, log lines, and printer invocations.         *)
(***************************************************************************)
EXTENDS Integers, Sequences, FiniteSets, TLC

VARIABLES cmd, flags, pc, p, manifest, cl, op, rs, json, events, stdout, outstanding

vars == <<cmd, flags, pc, p, manifest, cl, op, rs, json, events, stdout, outstanding>>

(***************************************************************************)
(* Bounds of the model.                                                    *)
(***************************************************************************)
\* number of distinct non-empty values a string flag may take
NumValues == 1
\* number of distinct operation ids the service may hand out
NumOpIds == 2
\* longest list of statuses in a replication status response
MaxStatuses == 1

ValuePool == <<"Microsoft.Azure.Extensions", "true", "</Version>">>
OpIdPool == <<"op-1", "op-2", "op-3">>

FlagValues == {""} \cup {ValuePool[i] : i \in 1..NumValues}
OpIds == {OpIdPool[i] : i \in 1..NumOpIds}

StatusEntries ==
    { [Location |-> "West US", Status |-> "Completed"],
      [Location |-> "Japan East", Status |-> "InProgress"] }

Responses ==
    UNION { [1..n -> StatusEntries] : n \in 0..MaxStatuses }

(***************************************************************************)
(* Commands and flags (main.go).                                           *)
(***************************************************************************)
flMgtURL == "management-url"
flSubsID == "subscription-id"
flSubsCert == "subscription-cert"
flVersion == "version"
flNamespace == "namespace"
flName == "name"
flJSON == "json"
flIsXMLExtension == "is-xml-extension"

StringFlags == {flMgtURL, flSubsID, flSubsCert, flNamespace, flName, flVersion}

CmdReplicationStatus == "replication-status"
CmdUnpublishVersion == "unpublish-version"

Commands == {CmdReplicationStatus, CmdUnpublishVersion}

\* the boolean flags each command declares; an undeclared flag reads false
BoolFlagsOf(c) ==
    IF c = CmdReplicationStatus THEN {flJSON} ELSE {flIsXMLExtension}

NoValue == "<none>"

Ev(kind, name, arg) == [kind |-> kind, name |-> name, arg |-> arg]


(***************************************************************************)
(* Log messages.                                                           *)
(***************************************************************************)
MsgArgument == "argument must be provided"
MsgReadCert == "Cannot read certificate"
MsgCreateClient == "Cannot create client"
MsgUpdateFailed == "UpdateExtension failed"
MsgUpdateStarted == "UpdateExtension operation started."
MsgUpdateFinished == "UpdateExtension operation finished."
MsgRequesting == "Requesting replication status."
MsgFetchFailed == "Cannot fetch replication status"
MsgJSONFailed == "failed to format as json"

(***************************************************************************)
(* main.go: checkFlag.  The flag's value is read and an empty value is     *)
(* fatal.                                                                  *)
(***************************************************************************)
\* checkFlag without the test for the empty value
checkFlagFails_Never(v) == FALSE

checkFlagFails(v) == v = ""

\* log.Fatalf / log.Fatal: the line is logged and the process exits
Fatal(msg, arg) ==
    /\ events' = Append(events, Ev("fatal", msg, arg))
    /\ pc' = "fatal"

(***************************************************************************)
(* unpublish.go: the manifest template.  The template text is a sequence   *)
(* of literal segments and field references; executing it replaces every   *)
(* field reference by the field's value and leaves the literals alone.     *)
(***************************************************************************)
Lit(s) == [kind |-> "lit", text |-> s]
Field(f) == [kind |-> "field", text |-> f]

SegInternal == "<IsInternalExtension>true</IsInternalExtension>"
SegJson == "<IsJsonExtension>true</IsJsonExtension>"

\* the template with the version left public
UnpublishTemplate_Public(isXMLExtension) ==
    << Lit("<?xml version=\"1.0\" encoding=\"utf-8\" ?>"),
       Lit("<ExtensionImage xmlns=\"http://schemas.microsoft.com/windowsazure\"  xmlns:i=\"http://www.w3.org/2001/XMLSchema-instance\">"),
       Lit("<!-- WARNING: Ordering of fields matter in this file. -->"),
       Lit("<ProviderNameSpace>"), Field("Namespace"), Lit("</ProviderNameSpace>"),
       Lit("<Type>"), Field("Name"), Lit("</Type>"),
       Lit("<Version>"), Field("Version"), Lit("</Version>"),
       Lit("<IsInternalExtension>false</IsInternalExtension>") >>
    \o (IF ~isXMLExtension THEN << Lit(SegJson) >> ELSE << >>)
    \o << Lit("</ExtensionImage>") >>

UnpublishTemplate(isXMLExtension) ==
    << Lit("<?xml version=\"1.0\" encoding=\"utf-8\" ?>"),
       Lit("<ExtensionImage xmlns=\"http://schemas.microsoft.com/windowsazure\"  xmlns:i=\"http://www.w3.org/2001/XMLSchema-instance\">"),
       Lit("<!-- WARNING: Ordering of fields matter in this file. -->"),
       Lit("<ProviderNameSpace>"), Field("Namespace"), Lit("</ProviderNameSpace>"),
       Lit("<Type>"), Field("Name"), Lit("</Type>"),
       Lit("<Version>"), Field("Version"), Lit("</Version>"),
       Lit(SegInternal) >>
    \o (IF ~isXMLExtension THEN << Lit(SegJson) >> ELSE << >>)
    \o << Lit("</ExtensionImage>") >>

Execute(tpl, data) ==
    [i \in 1..Len(tpl) |->
        IF tpl[i].kind = "field" THEN data[tpl[i].text] ELSE tpl[i].text]

(***************************************************************************)
(* replicationstatus.go: the two printers.                                 *)
(***************************************************************************)
printAsJSON(r) ==
    [format |-> "json",
     body |-> [i \in 1..Len(r) |->
                 << <<"Location", r[i].Location>>, <<"Status", r[i].Status>> >>]]

printAsTable(r) ==
    [format |-> "table",
     header |-> <<"Location", "Status">>,
     body |-> [i \in 1..Len(r) |-> <<r[i].Location, r[i].Status>>]]

\* the selection with its branches exchanged
SelectPrinter_Swapped(j) == IF j THEN "printAsTable" ELSE "printAsJSON"

\* the printer replicationStatus selects for the value of --json
SelectPrinter(j) == IF j THEN "printAsJSON" ELSE "printAsTable"

(***************************************************************************)
(* A run starts with a command and the values its flags resolve to.        *)
(***************************************************************************)
Init ==
    /\ cmd \in Commands
    /\ \E sv \in [StringFlags -> FlagValues] :
         \E bv \in [{flJSON, flIsXMLExtension} -> BOOLEAN] :
            /\ \A b \in {flJSON, flIsXMLExtension} :
                   b \notin BoolFlagsOf(cmd) => bv[b] = FALSE
            /\ flags = [f \in StringFlags \cup {flJSON, flIsXMLExtension} |->
                           IF f \in StringFlags THEN sv[f] ELSE bv[f]]
    /\ pc = "start"
    /\ p = [Namespace |-> NoValue, Name |-> NoValue, Version |-> NoValue]
    /\ manifest = << >>
    /\ cl = [mgtURL |-> NoValue, subscriptionID |-> NoValue,
             certFile |-> NoValue, ready |-> FALSE]
    /\ op = NoValue
    /\ rs = << >>
    /\ json = FALSE
    /\ events = << >>
    /\ stdout = << >>
    /\ outstanding = 0

\* app.RunAndExitOnError dispatches to the command's Action
Dispatch ==
    /\ pc = "start"
    /\ pc' = IF cmd = CmdUnpublishVersion THEN "u_namespace" ELSE "r_mgturl"
    /\ UNCHANGED <<cmd, flags, p, manifest, cl, op, rs, json, events, stdout, outstanding>>

(***************************************************************************)
(* unpublish.go: unpublishVersion.                                         *)
(***************************************************************************)
UnpublishCheckNamespace ==
    /\ pc = "u_namespace"
    /\ IF checkFlagFails(flags[flNamespace])
         THEN Fatal(MsgArgument, flNamespace) /\ UNCHANGED p
         ELSE /\ p' = [p EXCEPT !.Namespace = flags[flNamespace]]
              /\ pc' = "u_name"
              /\ UNCHANGED events
    /\ UNCHANGED <<cmd, flags, manifest, cl, op, rs, json, stdout, outstanding>>

UnpublishCheckName ==
    /\ pc = "u_name"
    /\ IF checkFlagFails(flags[flName])
         THEN Fatal(MsgArgument, flName) /\ UNCHANGED p
         ELSE /\ p' = [p EXCEPT !.Name = flags[flName]]
              /\ pc' = "u_version"
              /\ UNCHANGED events
    /\ UNCHANGED <<cmd, flags, manifest, cl, op, rs, json, stdout, outstanding>>

UnpublishCheckVersion ==
    /\ pc = "u_version"
    /\ IF checkFlagFails(flags[flVersion])
         THEN Fatal(MsgArgument, flVersion) /\ UNCHANGED p
         ELSE /\ p' = [p EXCEPT !.Version = flags[flVersion]]
              /\ pc' = "u_manifest"
              /\ UNCHANGED events
    /\ UNCHANGED <<cmd, flags, manifest, cl, op, rs, json, stdout, outstanding>>

\* lines 19-44: the template is assembled, parsed and executed over p
UnpublishBuildManifest ==
    /\ pc = "u_manifest"
    /\ manifest' = Execute(UnpublishTemplate(flags[flIsXMLExtension]), p)
    /\ pc' = "u_mgturl"
    /\ UNCHANGED <<cmd, flags, p, cl, op, rs, json, events, stdout, outstanding>>

UnpublishCheckMgtURL ==
    /\ pc = "u_mgturl"
    /\ IF checkFlagFails(flags[flMgtURL])
         THEN Fatal(MsgArgument, flMgtURL) /\ UNCHANGED cl
         ELSE /\ cl' = [cl EXCEPT !.mgtURL = flags[flMgtURL]]
              /\ pc' = "u_subsid"
              /\ UNCHANGED events
    /\ UNCHANGED <<cmd, flags, p, manifest, op, rs, json, stdout, outstanding>>

UnpublishCheckSubsID ==
    /\ pc = "u_subsid"
    /\ IF checkFlagFails(flags[flSubsID])
         THEN Fatal(MsgArgument, flSubsID) /\ UNCHANGED cl
         ELSE /\ cl' = [cl EXCEPT !.subscriptionID = flags[flSubsID]]
              /\ pc' = "u_subscert"
              /\ UNCHANGED events
    /\ UNCHANGED <<cmd, flags, p, manifest, op, rs, json, stdout, outstanding>>

UnpublishCheckSubsCert ==
    /\ pc = "u_subscert"
    /\ IF checkFlagFails(flags[flSubsCert])
         THEN Fatal(MsgArgument, flSubsCert) /\ UNCHANGED cl
         ELSE /\ cl' = [cl EXCEPT !.certFile = flags[flSubsCert]]
              /\ pc' = "u_mkclient"
              /\ UNCHANGED events
    /\ UNCHANGED <<cmd, flags, p, manifest, op, rs, json, stdout, outstanding>>

(***************************************************************************)
(* main.go: mkClient.  Reading the certificate file and creating the       *)
(* client can each fail; both failures are fatal.                          *)
(***************************************************************************)
mkClient(next) ==
    /\ \E outcome \in {"ok", "readCert", "NewClient"} :
         CASE outcome = "readCert" ->
                 Fatal(MsgReadCert, cl.certFile) /\ UNCHANGED cl
           [] outcome = "NewClient" ->
                 Fatal(MsgCreateClient, "") /\ UNCHANGED cl
           [] OTHER ->
                 /\ cl' = [cl EXCEPT !.ready = TRUE]
                 /\ pc' = next
                 /\ UNCHANGED events
    /\ UNCHANGED <<cmd, flags, p, manifest, op, rs, json, stdout, outstanding>>

\* unpublish.go line 46
UnpublishMkClient ==
    /\ pc = "u_mkclient"
    /\ mkClient("u_update")

\* line 47: the UpdateExtension request leaves with the manifest
UnpublishUpdateCall ==
    /\ pc = "u_update"
    /\ events' = Append(events, Ev("call", "UpdateExtension", manifest))
    /\ outstanding' = outstanding + 1
    /\ pc' = "u_update_ret"
    /\ UNCHANGED <<cmd, flags, p, manifest, cl, op, rs, json, stdout>>

\* the request's error is logged but the run carries on
UnpublishUpdateReturn_CarryOn ==
    /\ pc = "u_update_ret"
    /\ outstanding' = outstanding - 1
    /\ \/ \E id \in OpIds :
            /\ op' = id
            /\ events' = Append(events, Ev("return", "UpdateExtension", id))
            /\ pc' = "u_started"
       \/ /\ events' = Append(events, Ev("error", "UpdateExtension", ""))
          /\ pc' = "u_started"
          /\ UNCHANGED op
    /\ UNCHANGED <<cmd, flags, p, manifest, cl, rs, json, stdout>>

\* lines 47-50: the request returns an operation id or an error
UnpublishUpdateReturn ==
    /\ pc = "u_update_ret"
    /\ outstanding' = outstanding - 1
    /\ \/ \E id \in OpIds :
            /\ op' = id
            /\ events' = Append(events, Ev("return", "UpdateExtension", id))
            /\ pc' = "u_started"
       \/ /\ events' = events \o << Ev("error", "UpdateExtension", ""),
                                    Ev("fatal", MsgUpdateFailed, "") >>
          /\ pc' = "fatal"
          /\ UNCHANGED op
    /\ UNCHANGED <<cmd, flags, p, manifest, cl, rs, json, stdout>>

\* the 'started' line logged only after the poll was entered
UnpublishLogStarted_Late ==
    /\ pc = "u_started"
    /\ events' = events \o << Ev("call", "WaitForOperation", op),
                               Ev("info", MsgUpdateStarted, op) >>
    /\ outstanding' = outstanding + 1
    /\ pc' = "u_wait_ret"
    /\ UNCHANGED <<cmd, flags, p, manifest, cl, op, rs, json, stdout>>

\* lines 51-52
UnpublishLogStarted ==
    /\ pc = "u_started"
    /\ events' = Append(events, Ev("info", MsgUpdateStarted, op))
    /\ pc' = "u_wait"
    /\ UNCHANGED <<cmd, flags, p, manifest, cl, op, rs, json, stdout, outstanding>>

\* the run with the poll left out
UnpublishWaitCall_Skipped ==
    /\ pc = "u_wait"
    /\ pc' = "u_finished"
    /\ UNCHANGED <<cmd, flags, p, manifest, cl, op, rs, json, events, stdout, outstanding>>

\* line 53: WaitForOperation is entered with op
UnpublishWaitCall ==
    /\ pc = "u_wait"
    /\ events' = Append(events, Ev("call", "WaitForOperation", op))
    /\ outstanding' = outstanding + 1
    /\ pc' = "u_wait_ret"
    /\ UNCHANGED <<cmd, flags, p, manifest, cl, op, rs, json, stdout>>

\* lines 53-55: WaitForOperation returns nil or an error
UnpublishWaitReturn ==
    /\ pc = "u_wait_ret"
    /\ outstanding' = outstanding - 1
    /\ \/ /\ events' = Append(events, Ev("return", "WaitForOperation", op))
          /\ pc' = "u_finished"
       \/ /\ events' = events \o << Ev("error", "WaitForOperation", op),
                                    Ev("fatal", MsgUpdateFailed, op) >>
          /\ pc' = "fatal"
    /\ UNCHANGED <<cmd, flags, p, manifest, cl, op, rs, json, stdout>>

\* line 56
UnpublishLogFinished ==
    /\ pc = "u_finished"
    /\ events' = Append(events, Ev("info", MsgUpdateFinished, op))
    /\ pc' = "done"
    /\ UNCHANGED <<cmd, flags, p, manifest, cl, op, rs, json, stdout, outstanding>>

(***************************************************************************)
(* replicationstatus.go: replicationStatus.                                *)
(***************************************************************************)
ReplCheckMgtURL ==
    /\ pc = "r_mgturl"
    /\ IF checkFlagFails(flags[flMgtURL])
         THEN Fatal(MsgArgument, flMgtURL) /\ UNCHANGED cl
         ELSE /\ cl' = [cl EXCEPT !.mgtURL = flags[flMgtURL]]
              /\ pc' = "r_subsid"
              /\ UNCHANGED events
    /\ UNCHANGED <<cmd, flags, p, manifest, op, rs, json, stdout, outstanding>>

ReplCheckSubsID ==
    /\ pc = "r_subsid"
    /\ IF checkFlagFails(flags[flSubsID])
         THEN Fatal(MsgArgument, flSubsID) /\ UNCHANGED cl
         ELSE /\ cl' = [cl EXCEPT !.subscriptionID = flags[flSubsID]]
              /\ pc' = "r_subscert"
              /\ UNCHANGED events
    /\ UNCHANGED <<cmd, flags, p, manifest, op, rs, json, stdout, outstanding>>

ReplCheckSubsCert ==
    /\ pc = "r_subscert"
    /\ IF checkFlagFails(flags[flSubsCert])
         THEN Fatal(MsgArgument, flSubsCert) /\ UNCHANGED cl
         ELSE /\ cl' = [cl EXCEPT !.certFile = flags[flSubsCert]]
              /\ pc' = "r_mkclient"
              /\ UNCHANGED events
    /\ UNCHANGED <<cmd, flags, p, manifest, op, rs, json, stdout, outstanding>>

\* replicationstatus.go line 14
ReplMkClient ==
    /\ pc = "r_mkclient"
    /\ mkClient("r_namespace")

ReplCheckNamespace ==
    /\ pc = "r_namespace"
    /\ IF checkFlagFails(flags[flNamespace])
         THEN Fatal(MsgArgument, flNamespace) /\ UNCHANGED p
         ELSE /\ p' = [p EXCEPT !.Namespace = flags[flNamespace]]
              /\ pc' = "r_name"
              /\ UNCHANGED events
    /\ UNCHANGED <<cmd, flags, manifest, cl, op, rs, json, stdout, outstanding>>

ReplCheckName ==
    /\ pc = "r_name"
    /\ IF checkFlagFails(flags[flName])
         THEN Fatal(MsgArgument, flName) /\ UNCHANGED p
         ELSE /\ p' = [p EXCEPT !.Name = flags[flName]]
              /\ pc' = "r_version"
              /\ UNCHANGED events
    /\ UNCHANGED <<cmd, flags, manifest, cl, op, rs, json, stdout, outstanding>>

ReplCheckVersion ==
    /\ pc = "r_version"
    /\ IF checkFlagFails(flags[flVersion])
         THEN Fatal(MsgArgument, flVersion) /\ UNCHANGED p
         ELSE /\ p' = [p EXCEPT !.Version = flags[flVersion]]
              /\ pc' = "r_json"
              /\ UNCHANGED events
    /\ UNCHANGED <<cmd, flags, manifest, cl, op, rs, json, stdout, outstanding>>

\* lines 16-17: --json is read and the debug line is logged
ReplReadJSON ==
    /\ pc = "r_json"
    /\ json' = flags[flJSON]
    /\ events' = Append(events, Ev("debug", MsgRequesting, ""))
    /\ pc' = "r_get"
    /\ UNCHANGED <<cmd, flags, p, manifest, cl, op, rs, stdout, outstanding>>

\* line 18: the GetReplicationStatus request leaves
ReplGetCall ==
    /\ pc = "r_get"
    /\ events' = Append(events,
                    Ev("call", "GetReplicationStatus",
                       <<p.Namespace, p.Name, p.Version>>))
    /\ outstanding' = outstanding + 1
    /\ pc' = "r_get_ret"
    /\ UNCHANGED <<cmd, flags, p, manifest, cl, op, rs, json, stdout>>

\* lines 18-21: the request returns a response or an error
ReplGetReturn ==
    /\ pc = "r_get_ret"
    /\ outstanding' = outstanding - 1
    /\ \/ \E r \in Responses :
            /\ rs' = r
            /\ events' = Append(events, Ev("return", "GetReplicationStatus", r))
            /\ pc' = "r_print"
       \/ /\ events' = events \o << Ev("error", "GetReplicationStatus", ""),
                                    Ev("fatal", MsgFetchFailed, "") >>
          /\ pc' = "fatal"
          /\ UNCHANGED rs
    /\ UNCHANGED <<cmd, flags, p, manifest, cl, op, json, stdout>>

\* lines 23-31: the printer is selected and called with rs; printAsTable
\* always returns nil, printAsJSON returns an error when marshalling fails
ReplPrint ==
    /\ pc = "r_print"
    /\ LET f == SelectPrinter(json) IN
         IF f = "printAsJSON"
           THEN \/ /\ stdout' = Append(stdout, printAsJSON(rs))
                   /\ events' = Append(events, Ev("print", f, rs))
                   /\ pc' = "done"
                \/ /\ events' = events \o << Ev("print", f, rs),
                                             Ev("fatal", MsgJSONFailed, "") >>
                   /\ pc' = "fatal"
                   /\ UNCHANGED stdout
           ELSE /\ stdout' = Append(stdout, printAsTable(rs))
                /\ events' = Append(events, Ev("print", f, rs))
                /\ pc' = "done"
    /\ UNCHANGED <<cmd, flags, p, manifest, cl, op, rs, json, outstanding>>

Next ==
    \/ Dispatch
    \/ UnpublishCheckNamespace
    \/ UnpublishCheckName
    \/ UnpublishCheckVersion
    \/ UnpublishBuildManifest
    \/ UnpublishCheckMgtURL
    \/ UnpublishCheckSubsID
    \/ UnpublishCheckSubsCert
    \/ UnpublishMkClient
    \/ UnpublishUpdateCall
    \/ UnpublishUpdateReturn
    \/ UnpublishLogStarted
    \/ UnpublishWaitCall
    \/ UnpublishWaitReturn
    \/ UnpublishLogFinished
    \/ ReplCheckMgtURL
    \/ ReplCheckSubsID
    \/ ReplCheckSubsCert
    \/ ReplMkClient
    \/ ReplCheckNamespace
    \/ ReplCheckName
    \/ ReplCheckVersion
    \/ ReplReadJSON
    \/ ReplGetCall
    \/ ReplGetReturn
    \/ ReplPrint

Spec == Init /\ [][Next]_vars

(***************************************************************************)
(* Views of the history used by the properties.                            *)
(***************************************************************************)
IsCall(e) == e.kind = "call"
IsPrint(e) == e.kind = "print"
IsStep(e) == e.kind \in {"call", "return", "info"}

Calls == SelectSeq(events, IsCall)
Prints == SelectSeq(events, IsPrint)
Steps == SelectSeq(events, IsStep)

Has(kind, name) ==
    \E i \in 1..Len(events) : events[i].kind = kind /\ events[i].name = name

Count(kind, name) ==
    Cardinality({i \in 1..Len(events) :
                    events[i].kind = kind /\ events[i].name = name})

IsPrefix(s, t) ==
    /\ Len(s) <= Len(t)
    /\ \A i \in 1..Len(s) : s[i] = t[i]

Tag(e) == <<e.kind, e.name>>
Tags(s) == [i \in 1..Len(s) |-> Tag(s[i])]

\* the requests a command makes of the management endpoint, and the poll
RequestCalls == {"UpdateExtension", "GetReplicationStatus"}
PollCall == "WaitForOperation"
\* calls that only read from the service
ReadOnlyCalls == {"WaitForOperation", "GetReplicationStatus"}

AnyRequiredEmpty == \E f \in StringFlags : flags[f] = ""
ClientFlagsGiven == \A f \in {flMgtURL, flSubsID, flSubsCert} : flags[f] # ""
LastEvent == events[Len(events)]

(***************************************************************************)
(* C1.  As stated: every successful run of a command issues one or two     *)
(* requests to the management endpoint and then polls the asynchronous     *)
(* operation: a WaitForOperation call follows its request, for             *)
(* unpublish-version and for replication-status alike.                     *)
(***************************************************************************)
C1_EveryCommandPolls ==
    pc = "done" =>
        /\ Cardinality({i \in 1..Len(Calls) : Calls[i].name \in RequestCalls})
               \in {1, 2}
        /\ \E i, j \in 1..Len(Calls) :
              /\ i < j
              /\ Calls[i].name \in RequestCalls
              /\ Calls[j].name = PollCall

(***************************************************************************)
(* C1, amended.  A successful unpublish-version run made exactly the calls *)
(* UpdateExtension then WaitForOperation, and the poll returned; a         *)
(* successful replication-status run made the single call                  *)
(* GetReplicationStatus and never polled.                                  *)
(***************************************************************************)
C1_PollOnlyInUnpublish ==
    pc = "done" =>
        /\ cmd = CmdUnpublishVersion =>
              /\ Tags(Calls) = << <<"call", "UpdateExtension">>,
                                  <<"call", "WaitForOperation">> >>
              /\ Has("return", "WaitForOperation")
        /\ cmd = CmdReplicationStatus =>
              /\ Tags(Calls) = << <<"call", "GetReplicationStatus">> >>
              /\ ~Has("call", "WaitForOperation")

C1_Witness ==
    /\ pc = "done"
    /\ cmd = CmdUnpublishVersion
    /\ Has("return", "WaitForOperation")
    /\ Len(Calls) = 2

(***************************************************************************)
(* C2.  unpublish-version marks the version internal and does not delete   *)
(* it: the manifest it sends contains                                      *)
(* <IsInternalExtension>true</IsInternalExtension> whatever the flags, the *)
(* only call of the run that changes remote state is one UpdateExtension   *)
(* carrying that manifest, and no delete call is made.                     *)
(***************************************************************************)
C2_MarksInternalNoDelete ==
    cmd = CmdUnpublishVersion =>
        /\ \A i \in 1..Len(Calls) :
              Calls[i].name \notin ReadOnlyCalls =>
                  /\ Calls[i].name = "UpdateExtension"
                  /\ Calls[i].arg = manifest
                  /\ \E k \in 1..Len(Calls[i].arg) : Calls[i].arg[k] = SegInternal
                  /\ Calls[i].arg[1] = "<?xml version=\"1.0\" encoding=\"utf-8\" ?>"
                  /\ Calls[i].arg[Len(Calls[i].arg)] = "</ExtensionImage>"
        /\ Cardinality({i \in 1..Len(Calls) :
                           Calls[i].name \notin ReadOnlyCalls}) <= 1
        /\ ~ \E i \in 1..Len(Calls) : Calls[i].name = "DeleteExtension"

C2_Witness ==
    /\ cmd = CmdUnpublishVersion
    /\ flags[flIsXMLExtension]
    /\ Has("call", "UpdateExtension")
    /\ pc = "done"

(***************************************************************************)
(* C3.  As stated: when a required flag of the command resolves to the     *)
(* empty string, the run ends in a fatal error whose message is            *)
(* 'argument ... must be provided', it never completes, and neither        *)
(* UpdateExtension nor GetReplicationStatus is issued.                     *)
(***************************************************************************)
C3_RequiredArgsFatalMessage ==
    AnyRequiredEmpty =>
        /\ pc # "done"
        /\ ~Has("call", "UpdateExtension")
        /\ ~Has("call", "GetReplicationStatus")
        /\ pc = "fatal" => /\ LastEvent.kind = "fatal"
                           /\ LastEvent.name = MsgArgument

(***************************************************************************)
(* C3, amended.  When a required flag resolves to the empty string the run *)
(* ends in a fatal error, never completes, and issues neither              *)
(* UpdateExtension nor GetReplicationStatus.  The fatal message is         *)
(* 'argument ... must be provided' and names an empty flag, except that    *)
(* replication-status, which builds its client before it checks            *)
(* namespace, name and version, may end on a client failure ('Cannot read  *)
(* certificate', 'Cannot create client') when management-url,              *)
(* subscription-id and subscription-cert are all given.                    *)
(***************************************************************************)
C3_RequiredArgsFatal ==
    AnyRequiredEmpty =>
        /\ pc # "done"
        /\ ~Has("call", "UpdateExtension")
        /\ ~Has("call", "GetReplicationStatus")
        /\ outstanding = 0
        /\ pc = "fatal" =>
              /\ LastEvent.kind = "fatal"
              /\ \/ /\ LastEvent.name = MsgArgument
                    /\ LastEvent.arg \in StringFlags
                    /\ flags[LastEvent.arg] = ""
                 \/ /\ cmd = CmdReplicationStatus
                    /\ ClientFlagsGiven
                    /\ LastEvent.name \in {MsgReadCert, MsgCreateClient}

C3_Witness ==
    /\ pc = "fatal"
    /\ cmd = CmdReplicationStatus
    /\ cl.ready
    /\ flags[flNamespace] # ""
    /\ flags[flVersion] = ""
    /\ LastEvent = Ev("fatal", MsgArgument, flVersion)

(***************************************************************************)
(* C4.  Remote failures of unpublish-version are fatal and not retried: an *)
(* UpdateExtension error ends the run in a fatal error with no             *)
(* WaitForOperation call, a WaitForOperation error ends the run in a fatal *)
(* error with no 'UpdateExtension operation finished.' line, and each of   *)
(* the two is called at most once in a run.                                *)
(***************************************************************************)
C4_RemoteFailuresFatal ==
    /\ Has("error", "UpdateExtension") =>
          /\ pc = "fatal"
          /\ LastEvent = Ev("fatal", MsgUpdateFailed, "")
          /\ ~Has("call", "WaitForOperation")
    /\ Has("error", "WaitForOperation") =>
          /\ pc = "fatal"
          /\ LastEvent.kind = "fatal"
          /\ LastEvent.name = MsgUpdateFailed
          /\ ~Has("info", MsgUpdateFinished)
    /\ Count("call", "UpdateExtension") <= 1
    /\ Count("call", "WaitForOperation") <= 1

C4_Witness ==
    /\ pc = "fatal"
    /\ Has("error", "WaitForOperation")
    /\ Has("info", MsgUpdateStarted)
    /\ Count("call", "UpdateExtension") = 1

(***************************************************************************)
(* C5.  unpublish-version is one sequential request/poll cycle: its events *)
(* occur in the order UpdateExtension request, its return, the 'operation  *)
(* started' line, WaitForOperation, its return, the 'operation finished'   *)
(* line; WaitForOperation is called with the operation id the              *)
(* UpdateExtension of the run returned; at most one remote request is      *)
(* outstanding at any time.                                                *)
(***************************************************************************)
UnpublishOrder ==
    << <<"call", "UpdateExtension">>, <<"return", "UpdateExtension">>,
       <<"info", MsgUpdateStarted>>,
       <<"call", "WaitForOperation">>, <<"return", "WaitForOperation">>,
       <<"info", MsgUpdateFinished>> >>

C5_SequentialCycle ==
    /\ outstanding \in {0, 1}
    /\ cmd = CmdUnpublishVersion =>
          /\ IsPrefix(Tags(Steps), UnpublishOrder)
          /\ pc = "done" => Tags(Steps) = UnpublishOrder
          /\ \A j \in 1..Len(Steps) :
                j >= 3 => /\ Steps[2].arg \in OpIds
                          /\ Steps[j].arg = Steps[2].arg
          /\ outstanding = 1 <=> pc \in {"u_update_ret", "u_wait_ret"}

C5_Witness ==
    /\ cmd = CmdUnpublishVersion
    /\ pc = "u_wait_ret"
    /\ outstanding = 1
    /\ Len(Steps) = 4
    /\ Steps[4].arg = "op-2"

(***************************************************************************)
(* C6.  A successful replication-status run invoked exactly one printer,   *)
(* once, with the response GetReplicationStatus returned: printAsJSON when *)
(* --json is set and printAsTable when it is not, and standard output      *)
(* holds that printer's rendering of the response.                         *)
(***************************************************************************)
C6_PrinterFollowsJSONFlag ==
    (cmd = CmdReplicationStatus /\ pc = "done") =>
        /\ Len(Prints) = 1
        /\ Prints[1].name = (IF flags[flJSON] THEN "printAsJSON" ELSE "printAsTable")
        /\ \E i \in 1..Len(events) :
              /\ events[i] = Ev("return", "GetReplicationStatus", Prints[1].arg)
              /\ Count("return", "GetReplicationStatus") = 1
        /\ Len(stdout) = 1
        /\ stdout[1].format = (IF flags[flJSON] THEN "json" ELSE "table")
        /\ Len(stdout[1].body) = Len(Prints[1].arg)
        /\ \A k \in 1..Len(Prints[1].arg) :
              IF flags[flJSON]
                THEN stdout[1].body[k] =
                        << <<"Location", Prints[1].arg[k].Location>>,
                           <<"Status", Prints[1].arg[k].Status>> >>
                ELSE stdout[1].body[k] =
                        << Prints[1].arg[k].Location, Prints[1].arg[k].Status >>

C6_Witness ==
    /\ cmd = CmdReplicationStatus
    /\ pc = "done"
    /\ flags[flJSON]
    /\ Len(rs) >= 1
    /\ Len(stdout) = 1

====
